---- MODULE Spec2Model ----
(***************************************************************************)
(* A model of nimbu-core: the task lifecycle state machine (task.rs), the  *)
(* Notify-based task queue (task_queue.rs) and the actor-based task queue  *)
(* (task_queue/queue.rs with task_queue/scheduler.rs).                      *)
(***************************************************************************)
EXTENDS Integers, Sequences, FiniteSets, TLC

\* ------------------------------------------------------------------ bounds

\* largest max_retries a retry policy is given
MaxRetries == 2
\* attempt is a u32: MaxAttempt stands for u32::MAX, scaled down; it is also
\* the largest attempt number a Failed status is constructed with
MaxAttempt == 3

\* ------------------------------------------------- task.rs: the task state

VARIABLES
    tk,        \* the Task under test: [id, job_id, payload, status, max_retries,
               \* backoff_ms, created_at, updated_at]
    tkPrev,    \* the Task before the last operation
    tkOp,      \* the last Task method called
    tkRes,     \* what the Task method returned
    tkFnRes,   \* what the TaskStatus function of that operation returned
    overflow_checks,  \* the build panics on integer overflow (debug profile)
    bk         \* the backoff computation under test:
               \* [strategy, attempts, delay, prev]

taskVars == <<tk, tkPrev, tkOp, tkRes, tkFnRes, overflow_checks, bk>>

Errors == {"e1", "e2"}

\* TaskStatus (task.rs:9-16); attempt and error are carried by Failed only,
\* error by FailedPermanent too, and are 0 and "" elsewhere.
Status(tag) == [tag |-> tag, attempt |-> 0, error |-> ""]
Failed(attempt, error) == [tag |-> "Failed", attempt |-> attempt, error |-> error]
FailedPermanent(error) == [tag |-> "FailedPermanent", attempt |-> 0, error |-> error]

Pending == Status("Pending")
Assigned == Status("Assigned")
Running == Status("Running")
Completed == Status("Completed")

AllStatuses ==
    {Pending, Assigned, Running, Completed}
        \cup {Failed(a, e) : a \in 0..MaxAttempt, e \in Errors}
        \cup {FailedPermanent(e) : e \in Errors}

as_str(status) == status.tag

\* Result<TaskStatus, TaskTransitionError>
Ok(status) == [ok |-> TRUE, status |-> status, err |-> "", from |-> "", to |-> ""]
Illegal(from, to) ==
    [ok |-> FALSE, status |-> Pending, err |-> "Illegal", from |-> from, to |-> to]
RetryLimitedExceeded ==
    [ok |-> FALSE, status |-> Pending, err |-> "RetryLimitedExceeded",
     from |-> "", to |-> ""]

\* no call made yet
NoRes == [ok |-> FALSE, status |-> Pending, err |-> "none", from |-> "", to |-> ""]

mark_as_assigned(status) ==
    IF status = Pending THEN Ok(Assigned)
    ELSE Illegal(as_str(status), "Assigned")

\* A mark_as_running that would also accept a Pending task.
mark_as_running_accepts_pending(status) ==
    IF status.tag \in {"Assigned", "Pending"} THEN Ok(Running)
    ELSE Illegal(as_str(status), "Running")

mark_as_running(status) ==
    IF status = Assigned THEN Ok(Running)
    ELSE Illegal(as_str(status), "Running")

mark_as_completed(status) ==
    IF status = Running THEN Ok(Completed)
    ELSE Illegal(as_str(status), "Completed")

mark_as_failed(status, attempt, error) ==
    IF status = Running THEN Ok(Failed(attempt, error))
    ELSE Illegal(as_str(status), "Failed")

\* A mark_as_failed_permanent that would accept every status but FailedPermanent.
mark_as_failed_permanent_from_any(status, error) ==
    IF status.tag # "FailedPermanent" THEN Ok(FailedPermanent(error))
    ELSE Illegal(as_str(status), "FailedPermanent")

mark_as_failed_permanent(status, error) ==
    IF status.tag \in {"Running", "Failed"} THEN Ok(FailedPermanent(error))
    ELSE Illegal(as_str(status), "FailedPermanent")

is_terminal(status) == status.tag \in {"Completed", "FailedPermanent"}

\* RetryPolicy::can_retry
can_retry(max_retries, attempt) == attempt < max_retries

\* The payloads given to the builder.
Payloads == {<<>>, <<1>>}

\* Task::builder(payload).status(status).retry_policy(..).build(): the id and
\* job_id are those issued for it, created_at and updated_at the time of the
\* build.
build(payload, status, max) ==
    [id |-> 1, job_id |-> 1, payload |-> payload, status |-> status,
     max_retries |-> max, backoff_ms |-> 0, created_at |-> 0, updated_at |-> 0]

\* A method that would refresh updated_at also when the transition is refused.
TransitionTouching(task, r) ==
    IF r.ok
    THEN <<[task EXCEPT !.status = r.status, !.updated_at = task.updated_at + 1],
           Ok(r.status)>>
    ELSE <<[task EXCEPT !.updated_at = task.updated_at + 1], r>>

\* A Task method's `self.status = f(self.status)?; self.updated_at = now; Ok(())`:
\* the pair <<task after, result>>.
Transition(task, r) ==
    IF r.ok
    THEN <<[task EXCEPT !.status = r.status, !.updated_at = task.updated_at + 1],
           Ok(r.status)>>
    ELSE <<task, r>>

assign(task) == Transition(task, mark_as_assigned(task.status))
start(task) == Transition(task, mark_as_running(task.status))
complete(task) == Transition(task, mark_as_completed(task.status))

\* The method panicked: it returned nothing and changed nothing.
Panicked == [ok |-> FALSE, status |-> Pending, err |-> "panic", from |-> "", to |-> ""]

Overflow == -1

\* `a + b` on u32: a build with overflow checks panics when the sum does not
\* fit, a build without them wraps.
add_u32(a, b) ==
    IF a + b <= MaxAttempt THEN a + b
    ELSE IF overflow_checks THEN Overflow
    ELSE (a + b) % (MaxAttempt + 1)

\* A fail_retry that would not look at max_retries.
fail_retry_without_limit(task, error) ==
    IF task.status.tag \notin {"Running", "Failed"}
    THEN <<task, Illegal(as_str(task.status), "FailedRetry")>>
    ELSE Transition(task, mark_as_failed(task.status,
                                         IF task.status = Running THEN 1
                                         ELSE task.status.attempt + 1, error))

fail_retry(task, error) ==
    IF task.status.tag \notin {"Running", "Failed"}
    THEN <<task, Illegal(as_str(task.status), "FailedRetry")>>
    ELSE LET attempt == IF task.status = Running THEN 1
                        ELSE add_u32(task.status.attempt, 1)
         IN  IF attempt = Overflow
             THEN <<task, Panicked>>
             ELSE IF attempt > task.max_retries
             THEN <<task, RetryLimitedExceeded>>
             ELSE Transition(task, mark_as_failed(task.status, attempt, error))

fail_permanent(task, error) ==
    Transition(task, mark_as_failed_permanent(task.status, error))

\* ----------------------------------------------------- the task queues: state

\* tasks a run submits (TaskId: issued 1, 2, ... in submission order)
NumTasks == 2
\* producers calling enqueue, try_enqueue and enqueue_delayed concurrently
NumProducers == 2
\* workers calling dequeue concurrently
NumWorkers == 2
\* TaskQueue::new(capacity) is called with a capacity in 1..MaxCapacity
MaxCapacity == 2
\* the bound of the command channel (mpsc::channel(1024) in queue.rs:34),
\* scaled down
SchedulerCapacity == 1
\* the clock runs from 0 to MaxTime
MaxTime == 2
\* the delays given to enqueue_delayed are 1..MaxDelay
MaxDelay == 1
\* BackoffStrategy::Fixed(FixedBackoff) is the strategy of every retry policy
FixedBackoff == 1

Tasks == 1..NumTasks
Producers == 1..NumProducers
Workers == 1..NumWorkers
Delays == 1..MaxDelay
NoTask == 0

\* Who holds a tokio Mutex: nobody, a producer, a worker, a spawned delay task.
Free == <<"free", 0>>
ProducerId(p) == <<"producer", p>>
WorkerId(w) == <<"worker", w>>
DelayId(t) == <<"delay", t>>

VARIABLES
    design,       \* "notify": task_queue.rs; "actor": task_queue/queue.rs
    capacity,     \* the capacity TaskQueue::new was given
    max_retries,  \* retry_policy.max_retries of the tasks of this run
    now,          \* the clock (tokio::time)
    nextTask,     \* the TaskId the next submitted task gets
    ready,        \* the ready channel (mpsc::channel(capacity)): Seq of tasks
    len,          \* the length counter (AtomicUsize)
    senderSome,   \* notify: self.sender holds Some(tx)
    senderLock,   \* notify: who holds the Mutex around self.sender
    rxLock,       \* who holds the Mutex around the receiver
    cmds,         \* actor: the command channel: Seq of SchedulerCommand
    delay_queue,  \* actor: the DelayQueue, a set of [task, at]
    apc,          \* the scheduling task: where it is
    atask,        \* actor: the expired task being delivered
    dtask,        \* notify: the task spawned by enqueue_delayed, per TaskId
    ppc,          \* per producer: where its call is
    ptask,        \* per producer: the task its call holds
    wpc,          \* per worker: where it is
    wtask,        \* per worker: the task it holds
    spc,          \* the shutdown() call: where it is
    ahead,        \* notify: who waited for the sender Mutex before shutdown()
    pendingAtShutdown,  \* the delayed tasks not expired when shutdown began
    tstatus,      \* per task: its status
    attempts,     \* per task: its attempts field
    due,          \* per task: time of enqueue_delayed + delay, -1 if none
    putLog,       \* the tasks placed on the ready channel, in order
    deqLog,       \* the tasks dequeue returned, in order
    retries,      \* per task: how often the actor rescheduled it for retry
    retired,      \* tasks dropped by the actor after an outcome, or finished
    abandoned,    \* tasks dropped because of shutdown
    refusedClosed,  \* tasks a call refused with Closed
    refusedFull,    \* tasks try_enqueue refused with Full
    sawNone       \* a dequeue has returned None

queueVars ==
    <<design, capacity, max_retries, now, nextTask, ready, len, senderSome, senderLock,
      rxLock, cmds, delay_queue, apc, atask, dtask, ppc, ptask, wpc, wtask,
      spc, ahead, pendingAtShutdown, tstatus, attempts, due, putLog, deqLog, retries, retired,
      abandoned, refusedClosed, refusedFull, sawNone>>

vars == <<taskVars, queueVars>>

\* SchedulerCommand (messages.rs)
Schedule(t, d) == [type |-> "Schedule", task |-> t, delay |-> d, event |-> ""]
ExecutionResult(event, t) ==
    [type |-> "ExecutionResult", task |-> t, delay |-> 0, event |-> event]
Shutdown == [type |-> "Shutdown", task |-> NoTask, delay |-> 0, event |-> ""]

Events == {"Completed", "RetryableFailure", "FatalFailure"}

NoDelayTask == [pc |-> "none", delay |-> 0, at |-> 0, notified |-> FALSE]

\* A channel that would take one task more than `capacity`.
ReadyBoundOneMore == capacity + 1

\* mpsc::channel(capacity): the ready channel takes a task while it holds
\* fewer than `capacity`.
ReadyBound == capacity

ReadyHasRoom == Len(ready) < ReadyBound

\* Every Sender of the ready channel is gone: recv() on an empty channel then
\* returns None. notify: self.sender and the scheduling task's delay_tx.
\* actor: self.ready_tx lives as long as the queue a dequeue is called on.
ReadyClosed == design = "notify" /\ ~senderSome /\ apc = "exited"


\* A timer is running, or a delay is about to be turned into one.
TimerPending ==
    \/ \E e \in delay_queue : e.at > now
    \/ \E i \in 1..Len(cmds) : cmds[i].type = "Schedule"
    \/ \E t \in Tasks : dtask[t].pc = "spawned"
    \/ \E t \in Tasks : dtask[t].pc = "waiting" /\ dtask[t].at > now

InitQueue ==
    /\ capacity \in 1..MaxCapacity
    /\ max_retries \in 0..MaxRetries
    /\ now = 0
    /\ nextTask = 1
    /\ ready = <<>>
    /\ len = 0
    /\ senderSome = TRUE
    /\ senderLock = Free
    /\ rxLock = Free
    /\ cmds = <<>>
    /\ delay_queue = {}
    /\ apc = "start"
    /\ atask = NoTask
    /\ dtask = [t \in Tasks |-> NoDelayTask]
    /\ ppc = [p \in Producers |-> "idle"]
    /\ ptask = [p \in Producers |-> NoTask]
    /\ wpc = [w \in Workers |-> "idle"]
    /\ wtask = [w \in Workers |-> NoTask]
    /\ spc = "idle"
    /\ ahead = {}
    /\ pendingAtShutdown = {}
    /\ tstatus = [t \in Tasks |-> Pending]
    /\ attempts = [t \in Tasks |-> 0]
    /\ due = [t \in Tasks |-> -1]
    /\ putLog = <<>>
    /\ deqLog = <<>>
    /\ retries = [t \in Tasks |-> 0]
    /\ retired = {}
    /\ abandoned = {}
    /\ refusedClosed = {}
    /\ refusedFull = {}
    /\ sawNone = FALSE

confVars == <<design, capacity, max_retries>>
chanVars == <<ready, putLog, len>>
senderVars == <<senderSome, senderLock>>
schedVars == <<cmds, delay_queue, apc, atask>>
prodVars == <<ppc, ptask, nextTask, due>>
workVars == <<wpc, wtask, rxLock, deqLog, sawNone>>
statVars == <<tstatus, attempts, retries>>
outVars == <<retired, abandoned, refusedClosed, refusedFull>>
shutVars == <<spc, ahead, pendingAtShutdown>>

\* tokio::time: the clock advances while a timer can see it.
Tick ==
    /\ now < MaxTime
    /\ TimerPending
    /\ now' = now + 1
    /\ UNCHANGED <<taskVars, confVars, chanVars, senderVars, schedVars, prodVars, workVars,
                   statVars, outVars, dtask, shutVars>>

\* ------------------------------------------ the facade: enqueue and dequeue

\* AtomicUsize::fetch_add and fetch_sub wrap modulo 2^64. The counter is kept
\* as the representative of its value in (-2^63, 2^63): a negative len stands
\* for the wrapped value 2^64 + len.
fetch_add(v, n) == v + n
fetch_sub(v, n) == v - n

\* actor: shutdown(self) takes the queue by value, so no other call on the
\* queue is in progress or follows once it has started. notify: shutdown(&self).
FacadeUsable == design = "actor" => spc = "idle"

\* enqueue is called with a new task.
EnqueueCall(p) ==
    /\ ppc[p] = "idle"
    /\ nextTask <= NumTasks
    /\ FacadeUsable
    /\ ppc' = [ppc EXCEPT ![p] = IF design = "notify" THEN "lock" ELSE "send"]
    /\ ptask' = [ptask EXCEPT ![p] = nextTask]
    /\ nextTask' = nextTask + 1
    /\ UNCHANGED <<taskVars, confVars, chanVars, senderVars, schedVars, workVars, statVars,
                   outVars, now, dtask, shutVars, due>>

\* tokio's Mutex is fair (FIFO): once shutdown() waits for the sender Mutex,
\* the Mutex goes to those who waited before it, then to shutdown(), and
\* only then to anyone who came later.
LockGranted(id) == spc = "take" => id \in ahead

\* notify: `self.sender.lock().await`, then `as_ref().ok_or(Closed)?`.
EnqueueLock(p) ==
    /\ design = "notify"
    /\ ppc[p] = "lock"
    /\ senderLock = Free
    /\ LockGranted(ProducerId(p))
    /\ ahead' = ahead \ {ProducerId(p)}
    /\ IF senderSome
       THEN /\ senderLock' = ProducerId(p)
            /\ ppc' = [ppc EXCEPT ![p] = "send"]
            /\ UNCHANGED <<ptask, refusedClosed>>
       ELSE /\ ppc' = [ppc EXCEPT ![p] = "idle"]
            /\ refusedClosed' = refusedClosed \cup {ptask[p]}
            /\ ptask' = [ptask EXCEPT ![p] = NoTask]
            /\ UNCHANGED senderLock
    /\ UNCHANGED <<taskVars, confVars, chanVars, senderSome, schedVars, workVars, statVars,
                   retired, abandoned, refusedFull, nextTask, due, now, dtask,
                   spc, pendingAtShutdown>>

\* `sender.send(task).await` completes when the ready channel has room; then
\* `len.fetch_add(1)` and `Ok(())`, and the guard of the sender Mutex is dropped.
EnqueueSend(p) ==
    /\ ppc[p] = "send"
    /\ ReadyHasRoom
    /\ ready' = Append(ready, ptask[p])
    /\ putLog' = Append(putLog, ptask[p])
    /\ len' = fetch_add(len, 1)
    /\ ptask' = [ptask EXCEPT ![p] = NoTask]
    /\ ppc' = [ppc EXCEPT ![p] = "idle"]
    /\ senderLock' = Free
    /\ UNCHANGED <<taskVars, confVars, senderSome, schedVars, workVars, statVars, outVars,
                   nextTask, due, now, dtask, shutVars>>

\* notify: try_enqueue. `try_lock().ok().and_then(|s| s.clone())` gives None
\* when the Mutex is held (or promised to a waiting shutdown()) or the sender
\* is taken, and None is turned into
\* Closed; otherwise try_send gives Ok or Full.
try_enqueue ==
    IF senderLock # Free \/ spc = "take" \/ ~senderSome THEN "Closed"
    ELSE IF ReadyHasRoom THEN "Ok"
    ELSE "Full"

TryEnqueue(p) ==
    /\ design = "notify"
    /\ ppc[p] = "idle"
    /\ nextTask <= NumTasks
    /\ nextTask' = nextTask + 1
    /\ ready' = IF try_enqueue = "Ok" THEN Append(ready, nextTask) ELSE ready
    /\ putLog' = IF try_enqueue = "Ok" THEN Append(putLog, nextTask) ELSE putLog
    /\ len' = IF try_enqueue = "Ok" THEN fetch_add(len, 1) ELSE len
    /\ refusedClosed' = IF try_enqueue = "Closed"
                        THEN refusedClosed \cup {nextTask} ELSE refusedClosed
    /\ refusedFull' = IF try_enqueue = "Full"
                      THEN refusedFull \cup {nextTask} ELSE refusedFull
    /\ UNCHANGED <<taskVars, confVars, senderVars, schedVars, workVars, statVars, retired,
                   abandoned, ppc, ptask, due, now, dtask, shutVars>>

\* The command channel takes a command: it has room and its receiver lives.
CommandAccepted == Len(cmds) < SchedulerCapacity /\ apc # "exited"

\* actor: enqueue_delayed. `let _ = self.scheduler_tx.try_send(Schedule{..})`:
\* the command is sent if the command channel takes it, and the result of
\* try_send is discarded.
EnqueueDelayed(p, d) ==
    /\ design = "actor"
    /\ ppc[p] = "idle"
    /\ nextTask <= NumTasks
    /\ FacadeUsable
    /\ nextTask' = nextTask + 1
    /\ due' = [due EXCEPT ![nextTask] = now + d]
    /\ cmds' = IF CommandAccepted THEN Append(cmds, Schedule(nextTask, d)) ELSE cmds
    /\ UNCHANGED <<taskVars, confVars, chanVars, senderVars, delay_queue, apc, atask,
                   workVars, statVars, outVars, ppc, ptask, now, dtask, shutVars>>

\* notify: enqueue_delayed spawns a task that owns the delayed task.
EnqueueDelayedSpawn(p, d) ==
    /\ design = "notify"
    /\ ppc[p] = "idle"
    /\ nextTask <= NumTasks
    /\ nextTask' = nextTask + 1
    /\ due' = [due EXCEPT ![nextTask] = now + d]
    /\ dtask' = [dtask EXCEPT ![nextTask] =
                    [pc |-> "spawned", delay |-> d, at |-> 0, notified |-> FALSE]]
    /\ UNCHANGED <<taskVars, confVars, chanVars, senderVars, schedVars, workVars, statVars,
                   outVars, ppc, ptask, now, shutVars>>

\* dequeue is called and `self.receiver.lock().await` has the lock: a caller
\* that waits for the Mutex is a caller that has not got further yet.
DequeueCall(w) ==
    /\ wpc[w] = "idle"
    /\ FacadeUsable
    /\ rxLock = Free
    /\ rxLock' = WorkerId(w)
    /\ wpc' = [wpc EXCEPT ![w] = "recv"]
    /\ UNCHANGED <<taskVars, confVars, chanVars, senderVars, schedVars, prodVars,
                   statVars, outVars, wtask, deqLog, sawNone, now, dtask, shutVars>>

\* A recv() that would take the newest task.
ReceivedLast == ready[Len(ready)]

\* The task recv() takes from the ready channel.
Received == Head(ready)

\* A recv() that would leave the task on the channel.
AfterRecvKept == ready

\* What recv() leaves in the ready channel.
AfterRecv == Tail(ready)

\* `receiver.recv().await` returns Some(task); then `len.fetch_sub(1)`, and
\* the task is returned and the guard of the receiver Mutex dropped.
DequeueRecv(w) ==
    /\ wpc[w] = "recv"
    /\ ready # <<>>
    /\ wtask' = [wtask EXCEPT ![w] = Received]
    /\ deqLog' = Append(deqLog, Received)
    /\ ready' = AfterRecv
    /\ len' = fetch_sub(len, 1)
    /\ rxLock' = Free
    /\ wpc' = [wpc EXCEPT ![w] = "holding"]
    /\ UNCHANGED <<taskVars, confVars, putLog, senderVars, schedVars, prodVars, statVars,
                   outVars, sawNone, now, dtask, shutVars>>

\* `receiver.recv().await` returns None: the channel is empty and closed.
DequeueClosed(w) ==
    /\ wpc[w] = "recv"
    /\ ready = <<>>
    /\ ReadyClosed
    /\ sawNone' = TRUE
    /\ rxLock' = Free
    /\ wpc' = [wpc EXCEPT ![w] = "idle"]
    /\ UNCHANGED <<taskVars, confVars, chanVars, senderVars, schedVars, prodVars, statVars,
                   outVars, wtask, deqLog, now, dtask, shutVars>>

\* ------------------------------------------------------------- the workers

\* The worker's lifecycle calls on the task it dequeued: assign, then start;
\* a call that fails leaves the status as it is.
WorkerStatus(status) ==
    LET task == build(<<>>, status, max_retries)
    IN  start(assign(task)[1])[1].status

\* actor: the worker reports the outcome of the task it holds; the report is
\* an ExecutionResult command on the command channel.
ReportOutcome(w, event) ==
    /\ design = "actor"
    /\ wpc[w] = "holding"
    /\ apc # "exited"
    /\ Len(cmds) < SchedulerCapacity
    /\ cmds' = Append(cmds, ExecutionResult(event, wtask[w]))
    /\ tstatus' = [tstatus EXCEPT ![wtask[w]] = WorkerStatus(@)]
    /\ wtask' = [wtask EXCEPT ![w] = NoTask]
    /\ wpc' = [wpc EXCEPT ![w] = "idle"]
    /\ UNCHANGED <<taskVars, confVars, chanVars, senderVars, delay_queue, apc, atask,
                   prodVars, attempts, retries, outVars, rxLock,
                   deqLog, sawNone, now, dtask, shutVars>>

\* actor: the scheduling task has exited and its command receiver is dropped:
\* the report fails and the task is dropped with it.
ReportOutcomeClosed(w) ==
    /\ design = "actor"
    /\ wpc[w] = "holding"
    /\ apc = "exited"
    /\ abandoned' = abandoned \cup {wtask[w]}
    /\ wtask' = [wtask EXCEPT ![w] = NoTask]
    /\ wpc' = [wpc EXCEPT ![w] = "idle"]
    /\ UNCHANGED <<taskVars, confVars, chanVars, senderVars, schedVars, prodVars, statVars,
                   retired, refusedClosed, refusedFull, rxLock, deqLog, sawNone,
                   now, dtask, shutVars>>

\* notify: the queue has no outcome report; the worker is done with the task.
WorkerFinish(w) ==
    /\ design = "notify"
    /\ wpc[w] = "holding"
    /\ retired' = retired \cup {wtask[w]}
    /\ tstatus' = [tstatus EXCEPT ![wtask[w]] = WorkerStatus(@)]
    /\ wtask' = [wtask EXCEPT ![w] = NoTask]
    /\ wpc' = [wpc EXCEPT ![w] = "idle"]
    /\ UNCHANGED <<taskVars, confVars, chanVars, senderVars, schedVars, prodVars, attempts,
                   retries, abandoned, refusedClosed, refusedFull,
                   rxLock, deqLog, sawNone, now, dtask, shutVars>>

\* ------------------------------------- scheduler.rs: the scheduling actor

\* Task::mark_retryable_failure: the attempt count advances and the status
\* becomes Failed{attempt}.
mark_retryable_failure(status, att, error) ==
    [status |-> Failed(att + 1, error), attempts |-> att + 1]

\* Task::mark_permanent_failure
mark_permanent_failure(status, error) == FailedPermanent(error)

\* u32::MAX for the factor and its powers, scaled down
MaxPow == 15
\* Duration::MAX, scaled down (in units of the clock)
MaxDuration == 31
\* the largest base and the largest factor of an Exponential strategy
MaxBase == 3
MaxFactor == 3

\* BackoffStrategy
Fixed(delay) == [kind |-> "Fixed", delay |-> delay, base |-> 0, factor |-> 0, max_delay |-> 0]
Exponential(base, factor, max_delay) ==
    [kind |-> "Exponential", delay |-> 0, base |-> base, factor |-> factor,
     max_delay |-> max_delay]

\* u32::checked_mul: Overflow stands for None
checked_mul(a, b) == IF a * b > MaxPow THEN Overflow ELSE a * b

\* The loop of u32::checked_pow (exponentiation by squaring) and its last
\* multiplication.
RECURSIVE checked_pow_loop(_, _, _)
checked_pow_loop(base, exp, acc) ==
    IF exp > 1
    THEN LET acc2 == IF exp % 2 = 1 THEN checked_mul(acc, base) ELSE acc
             base2 == checked_mul(base, base)
         IN  IF acc2 = Overflow \/ base2 = Overflow THEN Overflow
             ELSE checked_pow_loop(base2, exp \div 2, acc2)
    ELSE checked_mul(acc, base)

checked_pow(base, exp) == IF exp = 0 THEN 1 ELSE checked_pow_loop(base, exp, 1)

\* A power that would wrap instead of saturating.
wrapping_pow(base, exp) ==
    LET RECURSIVE P(_)
        P(n) == IF n = 0 THEN 1 ELSE (base * P(n - 1)) % (MaxPow + 1)
    IN  P(exp)

\* u32::saturating_pow
saturating_pow(base, exp) ==
    IF checked_pow(base, exp) = Overflow THEN MaxPow ELSE checked_pow(base, exp)

\* Duration::saturating_mul(u32)
saturating_mul(d, n) == IF d * n > MaxDuration THEN MaxDuration ELSE d * n

\* Duration::min
min(a, b) == IF a <= b THEN a ELSE b

\* compute_backoff: the delay of the strategy after `attempts` attempts
compute_backoff(strategy, att) ==
    IF strategy.kind = "Fixed" THEN strategy.delay
    ELSE LET exp == saturating_pow(strategy.factor, att)
             delay == saturating_mul(strategy.base, exp)
         IN  min(delay, strategy.max_delay)

\* The retry decision of handle_execution_event: policy.can_retry(task.attempts)
RetryPermitted(max, attempt) == can_retry(max, attempt)

\* A handler that would put a task back into the delay queue when its
\* Completed report is refused.
handle_execution_event_retrying_refused(event, status, att) ==
    IF event = "Completed"
    THEN [status |-> IF mark_as_completed(status).ok THEN Completed ELSE status,
          attempts |-> att, retry |-> ~mark_as_completed(status).ok, delay |-> 0]
    ELSE IF event = "RetryableFailure" /\ RetryPermitted(max_retries, att + 1)
    THEN [status |-> Failed(att + 1, "e1"), attempts |-> att + 1, retry |-> TRUE,
          delay |-> FixedBackoff]
    ELSE [status |-> FailedPermanent("e1"), attempts |-> att, retry |-> FALSE,
          delay |-> 0]

\* A handler that would treat a FatalFailure like a RetryableFailure.
handle_execution_event_retrying_fatal(event, status, att) ==
    IF event = "Completed"
    THEN [status |-> IF mark_as_completed(status).ok THEN Completed ELSE status,
          attempts |-> att, retry |-> FALSE, delay |-> 0]
    ELSE IF RetryPermitted(max_retries, att + 1)
    THEN [status |-> Failed(att + 1, "e1"), attempts |-> att + 1, retry |-> TRUE,
          delay |-> FixedBackoff]
    ELSE [status |-> FailedPermanent("e1"), attempts |-> att + 1, retry |-> FALSE,
          delay |-> 0]

\* handle_execution_event: the task after the event, and whether it is put
\* back into the delay queue (retry) and after which delay.
handle_execution_event(event, status, att) ==
    CASE event = "Completed" ->
           LET r == mark_as_completed(status)
           IN  [status |-> IF r.ok THEN r.status ELSE status, attempts |-> att,
                retry |-> FALSE, delay |-> 0]
      [] event = "RetryableFailure" ->
           LET m == mark_retryable_failure(status, att, "e1")
           IN  IF RetryPermitted(max_retries, m.attempts)
               THEN [status |-> m.status, attempts |-> m.attempts,
                     retry |-> TRUE,
                     delay |-> compute_backoff(Fixed(FixedBackoff), m.attempts)]
               ELSE [status |-> mark_permanent_failure(m.status, "retry limit exceeded"),
                     attempts |-> m.attempts, retry |-> FALSE, delay |-> 0]
      [] event = "FatalFailure" ->
           [status |-> mark_permanent_failure(status, "e1"), attempts |-> att,
            retry |-> FALSE, delay |-> 0]

\* The spawned task is polled for the first time. notify: the loop's select!
\* creates the notified() future (the DelayQueue of this task is never
\* inserted into, so its branch is disabled). actor: the loop waits on the
\* command channel and the delay queue.
ActorStart ==
    /\ apc = "start"
    /\ apc' = IF design = "notify" THEN "waiting" ELSE "select"
    /\ UNCHANGED <<taskVars, confVars, chanVars, senderVars, cmds, delay_queue, atask,
                   prodVars, workVars, statVars, outVars, now, dtask, shutVars>>

\* actor: `Some(cmd) = cmd_rx.recv()` with a Schedule command.
ActorSchedule ==
    /\ design = "actor"
    /\ apc = "select"
    /\ cmds # <<>>
    /\ Head(cmds).type = "Schedule"
    /\ cmds' = Tail(cmds)
    /\ delay_queue' = delay_queue \cup
           {[task |-> Head(cmds).task, at |-> now + Head(cmds).delay]}
    /\ UNCHANGED <<taskVars, confVars, chanVars, senderVars, apc, atask, prodVars, workVars,
                   statVars, outVars, now, dtask, shutVars>>

\* actor: `Some(cmd) = cmd_rx.recv()` with an ExecutionResult command.
ActorExecutionResult ==
    /\ design = "actor"
    /\ apc = "select"
    /\ cmds # <<>>
    /\ Head(cmds).type = "ExecutionResult"
    /\ LET t == Head(cmds).task
           h == handle_execution_event(Head(cmds).event, tstatus[t], attempts[t])
       IN  /\ cmds' = Tail(cmds)
           /\ tstatus' = [tstatus EXCEPT ![t] = h.status]
           /\ attempts' = [attempts EXCEPT ![t] = h.attempts]
           /\ retries' = [retries EXCEPT ![t] = IF h.retry THEN @ + 1 ELSE @]
           /\ delay_queue' = IF h.retry
                             THEN delay_queue \cup {[task |-> t, at |-> now + h.delay]}
                             ELSE delay_queue
           /\ retired' = IF h.retry THEN retired ELSE retired \cup {t}
    /\ UNCHANGED <<taskVars, confVars, chanVars, senderVars, apc, atask, prodVars, workVars,
                   abandoned, refusedClosed, refusedFull, now, dtask, shutVars>>

\* The tasks the commands of a sequence carry.
TasksIn(s) == {s[i].task : i \in 1..Len(s)} \ {NoTask}

\* actor: `Some(cmd) = cmd_rx.recv()` with Shutdown: the loop breaks, and the
\* delay queue and the command receiver are dropped with what they hold.
ActorShutdown ==
    /\ design = "actor"
    /\ apc = "select"
    /\ cmds # <<>>
    /\ Head(cmds).type = "Shutdown"
    /\ apc' = "exited"
    /\ abandoned' = abandoned \cup {e.task : e \in delay_queue} \cup TasksIn(Tail(cmds))
    /\ delay_queue' = {}
    /\ cmds' = <<>>
    /\ UNCHANGED <<taskVars, confVars, chanVars, senderVars, atask, prodVars, workVars,
                   statVars, retired, refusedClosed, refusedFull, now, dtask, shutVars>>

\* A delay queue that would never yield an entry.
ExpiredNever == {}

\* The entries delay_queue.next() can yield: expired, earliest first.
Expired == {e \in delay_queue : e.at <= now /\ \A f \in delay_queue : e.at <= f.at}

\* actor: `Some(expired) = delay_queue.next()`
ActorExpire ==
    /\ design = "actor"
    /\ apc = "select"
    /\ \E e \in Expired :
        /\ delay_queue' = delay_queue \ {e}
        /\ atask' = e.task
    /\ apc' = "sending"
    /\ UNCHANGED <<taskVars, confVars, chanVars, senderVars, cmds, prodVars, workVars,
                   statVars, outVars, now, dtask, shutVars>>

\* actor: `let _ = ready_tx.send(task).await`: completes when the ready channel
\* has room; the length counter is not touched.
ActorSend ==
    /\ design = "actor"
    /\ apc = "sending"
    /\ ReadyHasRoom
    /\ ready' = Append(ready, atask)
    /\ putLog' = Append(putLog, atask)
    /\ atask' = NoTask
    /\ apc' = "select"
    /\ UNCHANGED <<taskVars, confVars, len, senderVars, cmds, delay_queue, prodVars, workVars,
                   statVars, outVars, now, dtask, shutVars>>

\* notify: the notified() branch of the loop's select!: break.
ActorExit ==
    /\ design = "notify"
    /\ apc = "notified"
    /\ apc' = "exited"
    /\ UNCHANGED <<taskVars, confVars, chanVars, senderVars, cmds, delay_queue, atask,
                   prodVars, workVars, statVars, outVars, now, dtask, shutVars>>

\* ------------------------------ task_queue.rs: the spawned delay tasks

\* notify: first poll of the task enqueue_delayed spawned: `dq.insert(task,
\* delay)` and the select! that creates the notified() future.
DelayStart(t) ==
    /\ dtask[t].pc = "spawned"
    /\ dtask' = [dtask EXCEPT ![t].pc = "waiting", ![t].at = now + dtask[t].delay]
    /\ UNCHANGED <<taskVars, confVars, chanVars, senderVars, schedVars, prodVars, workVars,
                   statVars, outVars, now, shutVars>>

\* notify: the notified() branch: the delayed task is dropped.
DelayCancel(t) ==
    /\ dtask[t].pc = "waiting"
    /\ dtask[t].notified
    /\ dtask' = [dtask EXCEPT ![t].pc = "cancelled"]
    /\ abandoned' = abandoned \cup {t}
    /\ UNCHANGED <<taskVars, confVars, chanVars, senderVars, schedVars, prodVars, workVars,
                   statVars, retired, refusedClosed, refusedFull, now, shutVars>>

\* notify: the `Some(expired) = dq.next()` branch.
DelayExpire(t) ==
    /\ dtask[t].pc = "waiting"
    /\ dtask[t].at <= now
    /\ dtask' = [dtask EXCEPT ![t].pc = "lock"]
    /\ UNCHANGED <<taskVars, confVars, chanVars, senderVars, schedVars, prodVars, workVars,
                   statVars, outVars, now, shutVars>>

\* notify: `if let Some(sender) = sender.lock().await.as_ref()`: with the
\* sender taken the task is dropped.
DelayLock(t) ==
    /\ dtask[t].pc = "lock"
    /\ senderLock = Free
    /\ LockGranted(DelayId(t))
    /\ ahead' = ahead \ {DelayId(t)}
    /\ IF senderSome
       THEN /\ senderLock' = DelayId(t)
            /\ dtask' = [dtask EXCEPT ![t].pc = "send"]
            /\ UNCHANGED abandoned
       ELSE /\ dtask' = [dtask EXCEPT ![t].pc = "dropped"]
            /\ abandoned' = abandoned \cup {t}
            /\ UNCHANGED senderLock
    /\ UNCHANGED <<taskVars, confVars, chanVars, senderSome, schedVars, prodVars, workVars,
                   statVars, retired, refusedClosed, refusedFull, now,
                   spc, pendingAtShutdown>>

\* notify: `sender.send(task).await` completes when the ready channel has
\* room; then `len.fetch_add(1)`, and the guard of the sender Mutex is dropped.
DelaySend(t) ==
    /\ dtask[t].pc = "send"
    /\ ReadyHasRoom
    /\ ready' = Append(ready, t)
    /\ putLog' = Append(putLog, t)
    /\ len' = fetch_add(len, 1)
    /\ senderLock' = Free
    /\ dtask' = [dtask EXCEPT ![t].pc = "done"]
    /\ UNCHANGED <<taskVars, confVars, senderSome, schedVars, prodVars, workVars, statVars,
                   outVars, now, shutVars>>

\* ---------------------------------------------------------------- shutdown

\* The delayed and retried tasks that have not expired: scheduled but not yet
\* in a delay queue, or in one with a deadline still ahead.
PendingDelayed ==
    {t \in Tasks : dtask[t].pc = "spawned" \/ (dtask[t].pc = "waiting" /\ dtask[t].at > now)}
        \cup {e.task : e \in {f \in delay_queue : f.at > now}}
        \cup {cmds[i].task : i \in {j \in 1..Len(cmds) : cmds[j].type = "Schedule"}}

\* Those waiting for the sender Mutex.
SenderWaiters ==
    {ProducerId(p) : p \in {q \in Producers : ppc[q] = "lock"}}
        \cup {DelayId(t) : t \in {u \in Tasks : dtask[u].pc = "lock"}}

\* notify: `self.shutdown.notify_waiters()`: every notified() future that exists
\* is woken; no permit is stored for one created later. In the same poll
\* shutdown() asks for the sender Mutex, behind those already waiting for it.
ShutdownNotify ==
    /\ design = "notify"
    /\ spc = "idle"
    /\ apc' = IF apc = "waiting" THEN "notified" ELSE apc
    /\ dtask' = [t \in Tasks |->
                    IF dtask[t].pc = "waiting"
                    THEN [dtask[t] EXCEPT !.notified = TRUE]
                    ELSE dtask[t]]
    /\ spc' = "take"
    /\ ahead' = SenderWaiters
    /\ pendingAtShutdown' = PendingDelayed
    /\ UNCHANGED <<taskVars, confVars, chanVars, senderVars, cmds, delay_queue, atask,
                   prodVars, workVars, statVars, outVars, now>>

\* A shutdown that would leave the sender in place.
sender_kept_by_take == TRUE

\* Option::take leaves None in self.sender: whether it still holds Some(tx).
sender_after_take == FALSE

\* notify: `self.sender.lock().await.take()`
ShutdownTake ==
    /\ design = "notify"
    /\ spc = "take"
    /\ senderLock = Free
    /\ ahead = {}
    /\ senderSome' = sender_after_take
    /\ spc' = "join"
    /\ UNCHANGED <<taskVars, confVars, chanVars, senderLock, schedVars, prodVars, workVars,
                   statVars, outVars, now, dtask, ahead, pendingAtShutdown>>

\* actor: shutdown(self) is called: no call borrows the queue.
ShutdownCall ==
    /\ design = "actor"
    /\ spc = "idle"
    /\ \A p \in Producers : ppc[p] = "idle"
    /\ \A w \in Workers : wpc[w] \in {"idle", "holding"}
    /\ spc' = "send"
    /\ pendingAtShutdown' = PendingDelayed
    /\ UNCHANGED <<taskVars, confVars, chanVars, senderVars, schedVars, prodVars, workVars,
                   statVars, outVars, now, dtask, ahead>>

\* actor: `self.scheduler_tx.send(SchedulerCommand::Shutdown).await`
ShutdownSend ==
    /\ design = "actor"
    /\ spc = "send"
    /\ Len(cmds) < SchedulerCapacity
    /\ cmds' = Append(cmds, Shutdown)
    /\ spc' = "join"
    /\ UNCHANGED <<taskVars, confVars, chanVars, senderVars, delay_queue, apc, atask,
                   prodVars, workVars, statVars, outVars, now, dtask, ahead,
                   pendingAtShutdown>>

\* `handle.await`: the join completes when the scheduling task has exited.
ShutdownJoin ==
    /\ spc = "join"
    /\ apc = "exited"
    /\ spc' = "done"
    /\ UNCHANGED <<taskVars, confVars, chanVars, senderVars, schedVars, prodVars, workVars,
                   statVars, outVars, now, dtask, ahead, pendingAtShutdown>>

\* ------------------------------------------------------- the specifications

\* No delay computed
NoDelay == -1

\* No backoff computation is under test.
NoBackoff == [strategy |-> Fixed(0), attempts |-> 0, delay |-> NoDelay, prev |-> NoDelay]

\* No Task method is under test.
Idle ==
    /\ tk = build(<<>>, Pending, 0)
    /\ overflow_checks = FALSE
    /\ bk = NoBackoff
    /\ tkPrev = tk
    /\ tkOp = "none"
    /\ tkRes = NoRes
    /\ tkFnRes = NoRes

\* The operations of both queues.
NextFacade ==
    \/ Tick
    \/ \E p \in Producers : EnqueueCall(p)
    \/ \E p \in Producers : EnqueueSend(p)
    \/ \E w \in Workers : DequeueCall(w)
    \/ \E w \in Workers : DequeueRecv(w)
    \/ ActorStart
    \/ ShutdownJoin

\* task_queue/queue.rs with task_queue/scheduler.rs
NextActor ==
    \/ \E p \in Producers, d \in Delays : EnqueueDelayed(p, d)
    \/ \E w \in Workers, ev \in Events : ReportOutcome(w, ev)
    \/ \E w \in Workers : ReportOutcomeClosed(w)
    \/ ActorSchedule
    \/ ActorExecutionResult
    \/ ActorShutdown
    \/ ActorExpire
    \/ ActorSend
    \/ ShutdownCall
    \/ ShutdownSend

\* task_queue.rs
NextNotify ==
    \/ \E p \in Producers : EnqueueLock(p)
    \/ \E p \in Producers : TryEnqueue(p)
    \/ \E p \in Producers, d \in Delays : EnqueueDelayedSpawn(p, d)
    \/ \E w \in Workers : DequeueClosed(w)
    \/ \E w \in Workers : WorkerFinish(w)
    \/ ActorExit
    \/ \E t \in Tasks : DelayStart(t)
    \/ \E t \in Tasks : DelayCancel(t)
    \/ \E t \in Tasks : DelayExpire(t)
    \/ \E t \in Tasks : DelayLock(t)
    \/ \E t \in Tasks : DelaySend(t)
    \/ ShutdownNotify
    \/ ShutdownTake

\* TaskQueue::new of either queue; task_queue.rs reads no retry policy.
Init ==
    /\ InitQueue
    /\ design \in {"notify", "actor"}
    /\ design = "notify" => max_retries = 0
    /\ Idle

Next == NextFacade \/ NextActor \/ NextNotify

\* Both queues: task_queue.rs, and task_queue/queue.rs with its actor.
Spec == Init /\ [][Next]_vars

\* task_queue.rs alone
InitNotify == Init /\ design = "notify"

NextNotifyQueue == NextFacade \/ NextNotify

\* The runtime polls every task that can make progress, the clock advances,
\* and the workers keep dequeuing and finish what they took. What the callers
\* choose to do (a new enqueue, try_enqueue, enqueue_delayed, shutdown) is
\* not forced.
FairnessNotify ==
    /\ WF_vars(Tick)
    /\ WF_vars(ActorStart)
    /\ WF_vars(ActorExit)
    /\ WF_vars(ShutdownTake)
    /\ WF_vars(ShutdownJoin)
    /\ \A p \in Producers : WF_vars(EnqueueLock(p)) /\ WF_vars(EnqueueSend(p))
    /\ \A w \in Workers :
        /\ WF_vars(DequeueCall(w))
        /\ WF_vars(DequeueRecv(w))
        /\ WF_vars(DequeueClosed(w))
        /\ WF_vars(WorkerFinish(w))
    /\ \A t \in Tasks :
        /\ WF_vars(DelayStart(t))
        /\ WF_vars(DelayCancel(t) \/ DelayExpire(t))
        /\ WF_vars(DelayLock(t))
        /\ WF_vars(DelaySend(t))

\* task_queue.rs under a fair runtime
FairSpecNotify == InitNotify /\ [][NextNotifyQueue]_vars /\ FairnessNotify

\* task_queue/queue.rs with task_queue/scheduler.rs alone
InitActor == Init /\ design = "actor"

NextActorQueue == NextFacade \/ NextActor

\* The runtime polls the scheduling actor and every call in progress whenever
\* it can make progress, and the clock advances. Nothing obliges a worker to
\* dequeue or to report, or a caller to start a new call.
FairnessActor ==
    /\ WF_vars(Tick)
    /\ WF_vars(ActorStart)
    /\ WF_vars(ActorSchedule)
    /\ WF_vars(ActorExecutionResult)
    /\ WF_vars(ActorShutdown)
    /\ WF_vars(ActorExpire)
    /\ WF_vars(ActorSend)
    /\ WF_vars(ShutdownSend)
    /\ WF_vars(ShutdownJoin)
    /\ \A p \in Producers : WF_vars(EnqueueSend(p))

\* task_queue/queue.rs and its actor under a fair runtime
FairSpecActor == InitActor /\ [][NextActorQueue]_vars /\ FairnessActor

\* The consumers keep dequeuing: a worker that can take the receiver does,
\* and a worker that holds a task reports some outcome for it.
FairnessConsumers ==
    \A w \in Workers :
        /\ WF_vars(DequeueCall(w))
        /\ WF_vars(DequeueRecv(w))
        /\ WF_vars(\E ev \in Events : ReportOutcome(w, ev))
        /\ WF_vars(ReportOutcomeClosed(w))

\* task_queue/queue.rs and its actor under a fair runtime, with consumers
\* that keep dequeuing
FairSpecActorConsumers ==
    InitActor /\ [][NextActorQueue]_vars /\ FairnessActor /\ FairnessConsumers


\* ---------------------------------------- task.rs: operations on one task

\* TaskBuilder::build: any status and any policy can be given to the builder.
InitTask ==
    /\ InitQueue
    /\ design = "none"
    /\ capacity = 1
    /\ max_retries = 0
    /\ \E payload \in Payloads, status \in AllStatuses, max \in 0..MaxRetries :
         tk = build(payload, status, max)
    /\ overflow_checks \in BOOLEAN
    /\ bk = NoBackoff
    /\ tkPrev = tk
    /\ tkOp = "none"
    /\ tkRes = NoRes
    /\ tkFnRes = NoRes

Apply(op, out, fnres) ==
    /\ tkPrev' = tk
    /\ tkOp' = op
    /\ tk' = out[1]
    /\ tkRes' = out[2]
    /\ tkFnRes' = fnres
    /\ UNCHANGED <<overflow_checks, bk, queueVars>>

Assign == Apply("assign", assign(tk), mark_as_assigned(tk.status))

Start == Apply("start", start(tk), mark_as_running(tk.status))

Complete == Apply("complete", complete(tk), mark_as_completed(tk.status))

FailRetry ==
    \E e \in Errors, a \in 0..MaxAttempt :
        Apply("fail_retry", fail_retry(tk, e), mark_as_failed(tk.status, a, e))

FailPermanent ==
    \E e \in Errors :
        Apply("fail_permanent", fail_permanent(tk, e),
              mark_as_failed_permanent(tk.status, e))

NextTask == Assign \/ Start \/ Complete \/ FailRetry \/ FailPermanent

SpecTask == InitTask /\ [][NextTask]_vars

\* -------------------------------------------- backoff.rs: compute_backoff

\* A retry policy with any strategy, and a task that has not failed yet.
InitBackoff ==
    /\ InitQueue
    /\ design = "none"
    /\ capacity = 1
    /\ max_retries = 0
    /\ tk = build(<<>>, Pending, 0)
    /\ overflow_checks = FALSE
    /\ tkPrev = tk
    /\ tkOp = "none"
    /\ tkRes = NoRes
    /\ tkFnRes = NoRes
    /\ \E strategy \in {Fixed(d) : d \in 0..MaxDelay}
                        \cup {Exponential(b, f, m) :
                                b \in 0..MaxBase, f \in 0..MaxFactor, m \in 0..MaxDuration} :
         bk = [strategy |-> strategy, attempts |-> 0, delay |-> NoDelay, prev |-> NoDelay]

\* compute_backoff(&task) is called.
ComputeBackoff ==
    /\ bk.delay = NoDelay
    /\ bk' = [bk EXCEPT !.delay = compute_backoff(bk.strategy, bk.attempts)]
    /\ UNCHANGED <<tk, tkPrev, tkOp, tkRes, tkFnRes, overflow_checks, queueVars>>

\* The task fails once more: task.attempts advances.
NextAttempt ==
    /\ bk.delay # NoDelay
    /\ bk.attempts < MaxAttempt
    /\ bk' = [bk EXCEPT !.attempts = @ + 1, !.prev = bk.delay, !.delay = NoDelay]
    /\ UNCHANGED <<tk, tkPrev, tkOp, tkRes, tkFnRes, overflow_checks, queueVars>>

NextBackoff == ComputeBackoff \/ NextAttempt

SpecBackoff == InitBackoff /\ [][NextBackoff]_vars

\* Task::builder(payload).build() without a status: the task is Pending.
InitTaskPending == InitTask /\ tk.status = Pending

\* A task created Pending and changed through its methods only.
SpecTaskPending == InitTaskPending /\ [][NextTask]_vars

\* ------------------------------------------------------------------ C4

\* The transition table of the lifecycle: the (status, operation) edges.
TableEdge(tag, op) ==
    \/ tag = "Pending" /\ op = "assign"
    \/ tag = "Assigned" /\ op = "start"
    \/ tag = "Running" /\ op = "complete"
    \/ tag = "Running" /\ op = "fail_retry"
    \/ tag = "Failed" /\ op = "fail_retry"
    \/ tag \in {"Running", "Failed"} /\ op = "fail_permanent"

TargetOf(op) ==
    CASE op = "assign" -> "Assigned"
      [] op = "start" -> "Running"
      [] op = "complete" -> "Completed"
      [] op = "fail_retry" -> "Failed"
      [] op = "fail_permanent" -> "FailedPermanent"

\* C4: an operation that is not an edge of the transition table makes the
\* TaskStatus function return the illegal-transition error naming the status it
\* was called on and the target state, and the Task method leaves the status
\* as it was.
C4_IllegalTransitionRejected ==
    (tkOp # "none" /\ ~TableEdge(tkPrev.status.tag, tkOp)) =>
        /\ tkFnRes = Illegal(tkPrev.status.tag, TargetOf(tkOp))
        /\ ~tkRes.ok
        /\ tk.status = tkPrev.status

\* start was called on a Pending task and was refused.
C4_Witness ==
    /\ tkOp = "start"
    /\ tkPrev.status = Pending
    /\ tkFnRes = Illegal("Pending", "Running")
    /\ tk.status = Pending

\* ------------------------------------------------ claims about the queues

\* How often task t occurs in a sequence of tasks.
Count(s, t) == Cardinality({i \in 1..Len(s) : s[i] = t})

\* C1: every call to shutdown() eventually returns, wherever the scheduling
\* task is in its loop when the signal is issued, also right after the queue
\* was constructed.
C1_ShutdownReturns == (spc = "take") ~> (spc = "done")

\* C2: after shutdown() has returned no task is placed on the ready channel
\* and every enqueue that gets to the sender is refused with Closed, and a
\* dequeue that is waiting on the ready channel returns: with a task while
\* there is one, with None afterwards.
C2_ClosedAfterShutdown ==
    /\ [][spc = "done" =>
            /\ putLog' = putLog
            /\ \A p \in Producers :
                 (ppc[p] = "lock" /\ ppc'[p] # "lock") =>
                     (ppc'[p] = "idle" /\ ptask[p] \in refusedClosed')]_vars
    /\ \A w \in Workers : (spc = "done" /\ wpc[w] = "recv") ~> (wpc[w] # "recv")

\* shutdown() has returned, an enqueue was refused with Closed, the tasks that
\* were on the ready channel have been taken and a dequeue has returned None.
C2_Witness ==
    /\ design = "notify"
    /\ spc = "done"
    /\ refusedClosed # {}
    /\ refusedFull = {}
    /\ \A t \in Tasks : due[t] = -1
    /\ deqLog # <<>>
    /\ sawNone

\* C3: a task that always fails retryably is rescheduled exactly max_retries
\* times before the actor makes it FailedPermanent (with max_retries = 2:
\* Failed{1}, Failed{2}, and FailedPermanent on the third failure).
C3_RescheduledMaxRetriesTimes ==
    \A t \in Tasks :
        tstatus[t] = FailedPermanent("retry limit exceeded") =>
            retries[t] = max_retries

\* The number of places that hold task t.
Places(t) ==
    Count(ready, t)
    + Cardinality({i \in 1..Len(cmds) : cmds[i].task = t})
    + Cardinality({e \in delay_queue : e.task = t})
    + (IF atask = t THEN 1 ELSE 0)
    + (IF dtask[t].pc \in {"spawned", "waiting", "lock", "send"} THEN 1 ELSE 0)
    + Cardinality({w \in Workers : wtask[w] = t})
    + (IF t \in retired THEN 1 ELSE 0)
    + (IF t \in abandoned THEN 1 ELSE 0)

\* The call that submitted task t has returned and did not refuse it.
Accepted(t) ==
    /\ t < nextTask
    /\ t \notin refusedClosed \cup refusedFull
    /\ \A p \in Producers : ptask[p] # t

\* C5: every accepted task is in at most one place, and in exactly one while
\* shutdown has not been called: the ready channel, the delay structure (or
\* on its way into it), a worker, terminal, or abandoned by shutdown.
C5_ExactlyOnePlace ==
    \A t \in Tasks :
        Accepted(t) => Places(t) <= 1 /\ (spc = "idle" => Places(t) = 1)

\* C6: with no delayed task involved, the tasks dequeue has returned are, in
\* order, the first of the tasks enqueue has placed, and the rest is on the
\* ready channel in the order placed.
C6_Fifo ==
    (\A t \in Tasks : due[t] = -1 /\ retries[t] = 0) => deqLog \o ready = putLog

\* Two tasks were on the ready channel together, and the first was dequeued.
C6_Witness ==
    /\ \A t \in Tasks : due[t] = -1
    /\ Len(putLog) = 2
    /\ Len(deqLog) = 1
    /\ Len(ready) = 1
    /\ capacity = 2
    /\ \E w \in Workers : wpc[w] = "recv"

\* C7: the ready channel never holds more than `capacity` tasks, so that a
\* further enqueue has not completed while `capacity` tasks are undequeued;
\* and a blocking enqueue that waits on the channel can complete as soon as
\* the channel holds fewer.
C7_Backpressure ==
    /\ Len(ready) <= capacity
    /\ Len(putLog) - Len(deqLog) <= capacity
    /\ \A p \in Producers :
         (ppc[p] = "send" /\ Len(ready) < capacity) => ENABLED EnqueueSend(p)

\* The channel of capacity 1 was full, the second enqueue completed after the
\* first task was dequeued.
C7_Witness ==
    /\ capacity = 1
    /\ \A t \in Tasks : due[t] = -1
    /\ refusedFull = {}
    /\ refusedClosed = {}
    /\ putLog = <<1, 2>>
    /\ deqLog = <<1>>
    /\ ready = <<2>>

\* C8: while shutdown has not begun, try_enqueue does not return Closed, and
\* on a ready channel at capacity it returns Full, whatever the other
\* producers are doing.
C8_TryEnqueueFullNotClosed ==
    [][\A p \in Producers :
         (TryEnqueue(p) /\ spc = "idle") =>
             /\ nextTask \notin refusedClosed'
             /\ (Len(ready) = capacity => nextTask \in refusedFull')]_vars

\* Task t has been on the ready channel.
Delivered(t) == Count(putLog, t) > 0

\* Task t is on its way to the ready channel.
AwaitingDelivery(t) ==
    \/ \E i \in 1..Len(cmds) : cmds[i].task = t
    \/ \E e \in delay_queue : e.task = t
    \/ atask = t
    \/ dtask[t].pc \in {"spawned", "waiting", "lock", "send"}

\* C9: a task given to enqueue_delayed at time t with delay D is not on the
\* ready channel before t + D, and unless shutdown is called it is delivered:
\* it is on its way to the ready channel until it is on it.
C9_DelayedDelivery ==
    \A t \in Tasks :
        due[t] >= 0 =>
            /\ Delivered(t) => now >= due[t]
            /\ spc = "idle" => Delivered(t) \/ AwaitingDelivery(t)

\* C10: every task placed on the ready channel is returned by one dequeue or
\* still on the channel, as often as it was placed, and two workers never
\* hold the same task.
C10_ExactlyOneDequeue ==
    /\ \A t \in Tasks : Count(deqLog, t) + Count(ready, t) = Count(putLog, t)
    /\ \A v, w \in Workers : (v # w /\ wtask[v] # NoTask) => wtask[v] # wtask[w]
    /\ \A w \in Workers : wtask[w] # NoTask => Count(deqLog, wtask[w]) > 0

\* Both workers had called dequeue, and each holds one of the two tasks.
C10_Witness ==
    /\ wtask[1] # NoTask
    /\ wtask[2] # NoTask
    /\ wtask[1] # wtask[2]
    /\ Len(deqLog) = 2

\* C11: a delayed or retried task that had not expired when shutdown began is
\* not placed on the ready channel afterwards.
C11_PendingAbandoned ==
    [][putLog' # putLog => putLog'[Len(putLog')] \notin pendingAtShutdown]_vars

\* Some caller is in dequeue or can still call it.
DequeueAvailable == FacadeUsable \/ \E w \in Workers : wpc[w] = "recv"

\* C12: the tasks on the ready channel when shutdown begins remain obtainable:
\* while one is left a dequeue is in progress or can be called, it returns
\* the oldest of them, and no dequeue returns None.
C12_ReadyRetrievable ==
    (spc # "idle" /\ ready # <<>>) =>
        /\ DequeueAvailable
        /\ deqLog \o ready = putLog
        /\ \A w \in Workers : ~ENABLED DequeueClosed(w)

\* C13: for a task created Pending, a Failed status carries an attempt of at
\* least 1 and at most max_retries, and no operation lowers the attempt.
C13_AttemptBounded ==
    /\ tk.status.tag = "Failed" =>
          tk.status.attempt >= 1 /\ tk.status.attempt <= tk.max_retries
    /\ (tkPrev.status.tag = "Failed" /\ tk.status.tag = "Failed") =>
          tk.status.attempt >= tkPrev.status.attempt

\* fail_retry has taken a Running task with retries left to Failed.
C13_Witness ==
    /\ tkOp = "fail_retry"
    /\ tkRes.ok
    /\ tkPrev.status = Running
    /\ tk.status.tag = "Failed"
    /\ tk.status.attempt = 1

\* The attempt number a retryable failure of a task in `status` results in.
ResultingAttempt(status) == IF status = Running THEN 1 ELSE status.attempt + 1

\* C14: a fail_retry on a Running or Failed task whose resulting attempt
\* exceeds max_retries returns RetryLimitedExceeded and leaves the status
\* unchanged.
C14_RetryLimitExceeded ==
    (/\ tkOp = "fail_retry"
     /\ tkPrev.status.tag \in {"Running", "Failed"}
     /\ ResultingAttempt(tkPrev.status) > tkPrev.max_retries) =>
        /\ tkRes = RetryLimitedExceeded
        /\ tk.status = tkPrev.status

\* C15: every Task method called on a Completed or FailedPermanent task fails
\* and leaves the status as it was, so the status stays terminal.
C15_TerminalStaysTerminal ==
    (tkOp # "none" /\ is_terminal(tkPrev.status)) =>
        /\ ~tkRes.ok
        /\ tk.status = tkPrev.status
        /\ is_terminal(tk.status)

\* fail_permanent was called on a Completed task and changed nothing.
C15_Witness ==
    /\ tkOp = "fail_permanent"
    /\ tkPrev.status = Completed
    /\ ~tkRes.ok
    /\ tk.status = Completed

\* base^exp in the integers.
RECURSIVE Pow(_, _)
Pow(base, exp) == IF exp = 0 THEN 1 ELSE base * Pow(base, exp - 1)

\* min(base * factor^attempts, max_delay) with the power capped at MaxPow and
\* the product at MaxDuration.
SaturatedBackoff(strategy, att) ==
    LET power == IF Pow(strategy.factor, att) > MaxPow THEN MaxPow
                 ELSE Pow(strategy.factor, att)
        product == IF strategy.base * power > MaxDuration THEN MaxDuration
                   ELSE strategy.base * power
    IN  IF product < strategy.max_delay THEN product ELSE strategy.max_delay

\* C16: for an Exponential strategy the computed backoff is the saturated
\* min(base * factor^attempts, max_delay); it never exceeds max_delay, does not
\* decrease from one attempt to the next when factor >= 1, and for base 1,
\* factor 2, max_delay 5 it is 1, 2, 4, 5 at attempts 0, 1, 2, 3.
C16_ExponentialBackoff ==
    (bk.strategy.kind = "Exponential" /\ bk.delay # NoDelay) =>
        /\ bk.delay = SaturatedBackoff(bk.strategy, bk.attempts)
        /\ bk.delay <= bk.strategy.max_delay
        /\ (bk.strategy.factor >= 1 /\ bk.prev # NoDelay) => bk.delay >= bk.prev
        /\ bk.strategy = Exponential(1, 2, 5) =>
              bk.delay = <<1, 2, 4, 5>>[bk.attempts + 1]

\* The power saturates (3^3 exceeds MaxPow) and the delay is clamped to
\* max_delay.
C16_Witness ==
    /\ bk.strategy = Exponential(1, 3, 10)
    /\ bk.attempts = 3
    /\ bk.prev = 9
    /\ bk.delay = 10

\* C17: a shutdown() that has been called returns, also when the ready
\* channel is at capacity and no consumer dequeues: a scheduling actor
\* suspended in the delivery of an expired task does not keep it from
\* completing.
C17_ShutdownReturnsWhenFull == (spc = "send") ~> (spc = "done")

\* C18: fail_retry on a task in Failed{attempt = a} with a + 1 <= max_retries
\* succeeds and leaves Failed{attempt = a + 1, error}; on a Running task
\* (with max_retries >= 1) it leaves Failed{attempt = 1, error}.
C18_FailRetryAdvances ==
    (/\ tkOp = "fail_retry"
     /\ tkPrev.status.tag \in {"Running", "Failed"}
     /\ ResultingAttempt(tkPrev.status) <= tkPrev.max_retries) =>
        /\ tkRes.ok
        /\ tk.status.tag = "Failed"
        /\ tk.status.attempt = ResultingAttempt(tkPrev.status)
        /\ tk.status.error \in Errors

\* The expiry branch of the scheduling loops hands the task on as it is:
\* redelivery changes no field of it.
redeliver(task) == task

\* The statuses one lifecycle operation, or a redelivery, can leave a task in.
StatusesAfter(task) ==
    {assign(task)[1].status, start(task)[1].status, complete(task)[1].status,
     redeliver(task).status}
        \cup {fail_retry(task, e)[1].status : e \in Errors}
        \cup {fail_permanent(task, e)[1].status : e \in Errors}

\* The statuses reachable from those of S by any sequence of operations, for
\* a task with the given retry limit.
RECURSIVE ReachableStatuses(_, _)
ReachableStatuses(S, max) ==
    LET N == S \cup UNION {StatusesAfter(build(<<>>, st, max)) : st \in S}
    IN  IF N = S THEN S ELSE ReachableStatuses(N, max)

\* C19: from every Failed{attempt} status with retries left (attempt <
\* max_retries) some sequence of lifecycle operations and redeliveries reaches
\* Running.
C19_FailedCanRunAgain ==
    (tk.status.tag = "Failed" /\ can_retry(tk.max_retries, tk.status.attempt)) =>
        Running \in ReachableStatuses({tk.status}, tk.max_retries)

\* No enqueue, dequeue or delivery of an expired task is under way.
NoOperationInProgress ==
    /\ \A p \in Producers : ppc[p] = "idle"
    /\ \A w \in Workers : wpc[w] \in {"idle", "holding"}
    /\ \A t \in Tasks : dtask[t].pc \notin {"lock", "send"}
    /\ apc # "sending"

\* C20: the length counter goes up once per task placed on the ready channel
\* (by enqueue, try_enqueue or the delivery of an expired task) and down once
\* per task dequeued: it is never negative (never wraps), and whenever no
\* operation is in progress it is the number of tasks in the ready channel.
C20_LenCountsReady ==
    /\ len >= 0
    /\ NoOperationInProgress => len = Len(ready)

\* The actor takes an ExecutionResult command from the command channel.
TakesExecutionResult ==
    /\ design = "actor"
    /\ apc = "select"
    /\ cmds # <<>>
    /\ Head(cmds).type = "ExecutionResult"
    /\ cmds' = Tail(cmds)

\* C21: the scheduling actor exits only on a Shutdown command, never because
\* of an event: after any ExecutionResult it is back at its select!, and a
\* Completed report for a task that is not Running is dropped (the status
\* and the delay queue stay as they are, the task is not delivered again).
C21_ActorSurvivesEvents ==
    [][/\ (design = "actor" /\ apc # "exited" /\ apc' = "exited") =>
            (apc = "select" /\ cmds # <<>> /\ Head(cmds).type = "Shutdown")
       /\ TakesExecutionResult =>
            /\ apc' = "select"
            /\ (Head(cmds).event = "Completed" /\ tstatus[Head(cmds).task] # Running) =>
                  /\ tstatus'[Head(cmds).task] = tstatus[Head(cmds).task]
                  /\ delay_queue' = delay_queue
                  /\ Head(cmds).task \in retired']_vars

\* A Completed report for a task in Failed was dropped, and the actor is
\* waiting for the next command or expiry.
C21_Witness ==
    /\ design = "actor"
    /\ apc = "select"
    /\ \E t \in retired : tstatus[t].tag = "Failed"

\* The entries of the delay queue that hold task t.
EntriesOf(t) == {e \in delay_queue : e.task = t}

\* The actor takes a RetryableFailure report for a task that may be retried.
TakesRetryableFailure ==
    /\ TakesExecutionResult
    /\ Head(cmds).event = "RetryableFailure"
    /\ RetryPermitted(max_retries, attempts[Head(cmds).task] + 1)

\* C22: when the actor has processed a RetryableFailure report for a task
\* whose policy permits a retry, the task is in the delay queue exactly once,
\* expiring at now + compute_backoff; and unless shutdown is called, with
\* consumers that keep dequeuing, the task is placed on the ready channel
\* and returned by a dequeue once more (for the expiry instants the clock of
\* the model reaches).
C22_RetryRedelivered ==
    /\ [][TakesRetryableFailure =>
            {e \in delay_queue' : e.task = Head(cmds).task} =
                {[task |-> Head(cmds).task,
                  at |-> now + compute_backoff(Fixed(FixedBackoff),
                                               attempts'[Head(cmds).task])]}]_vars
    /\ \A t \in Tasks : \A n \in 1..MaxRetries :
         (/\ retries[t] = n
          /\ Count(deqLog, t) = n
          /\ \E e \in EntriesOf(t) : e.at <= MaxTime)
            ~> (Count(deqLog, t) = n + 1 \/ spc # "idle")

\* A task that failed once was retried: it went through the delay queue and
\* has been dequeued a second time, with no shutdown.
C22_Witness ==
    /\ design = "actor"
    /\ spc = "idle"
    /\ \E t \in Tasks : retries[t] = 1 /\ Count(deqLog, t) = 2 /\ Count(putLog, t) = 2

\* Task t is nowhere in the queue: not on the ready channel, not in the
\* delay queue, not in a command, not being delivered, not held by a worker.
Gone(t) ==
    /\ Count(ready, t) = 0
    /\ EntriesOf(t) = {}
    /\ t \notin TasksIn(cmds)
    /\ atask # t
    /\ \A w \in Workers : wtask[w] # t

\* C23: once the actor has processed a Completed or a FatalFailure report
\* for a task, the task is dropped: it is never inserted into the delay
\* queue and never placed on the ready channel again; and a FatalFailure
\* leaves the task FailedPermanent whatever retries its policy still allowed.
C23_FinalReportsDrop ==
    /\ [](design = "actor" => \A t \in retired : Gone(t))
    /\ [][/\ (TakesExecutionResult
              /\ Head(cmds).event \in {"Completed", "FatalFailure"}) =>
                /\ Head(cmds).task \in retired'
                /\ (Head(cmds).event = "FatalFailure" =>
                       tstatus'[Head(cmds).task].tag = "FailedPermanent")
          /\ (design = "actor" /\ putLog' # putLog) =>
                putLog'[Len(putLog')] \notin retired]_vars

\* A FatalFailure was processed for a task that had never failed, under a
\* policy that allows retries: the task is FailedPermanent and dropped.
C23_Witness ==
    /\ design = "actor"
    /\ max_retries >= 1
    /\ \E t \in retired : tstatus[t] = FailedPermanent("e1") /\ attempts[t] = 0

\* Task a was placed on the ready channel before task b.
PlacedBefore(a, b) ==
    \E i, j \in 1..Len(putLog) : putLog[i] = a /\ putLog[j] = b /\ i < j

\* C24: delayed and retried tasks reach the ready channel in the order of
\* their expiry instants: of two delivered tasks the one whose timer expires
\* strictly earlier is placed first, whichever was submitted first. notify:
\* the instants are those of the tasks' own delay queues; actor: the actor
\* takes from its delay queue an entry no other entry precedes.
C24_ExpiryOrder ==
    /\ [](\A a, b \in Tasks :
            (dtask[a].pc = "done" /\ dtask[b].pc = "done" /\ dtask[a].at < dtask[b].at)
                => PlacedBefore(a, b))
    /\ [][(design = "actor" /\ apc = "select" /\ apc' = "sending") =>
            \A e \in delay_queue \ delay_queue' : \A f \in delay_queue' : e.at <= f.at]_vars

\* The fields of a Task other than status and updated_at.
FrameFields == {"id", "job_id", "payload", "max_retries", "backoff_ms", "created_at"}

\* C25: a successful assign, start, complete, fail_retry or fail_permanent
\* changes only status and updated_at (id, job_id, payload, retry_policy and
\* created_at are as before); a failed call changes nothing, updated_at
\* included.
C25_FrameOfTransitions ==
    tkOp # "none" =>
        /\ \A f \in FrameFields : tk[f] = tkPrev[f]
        /\ ~tkRes.ok => tk = tkPrev

\* A successful fail_retry on a task with a payload: status and updated_at
\* changed, the rest did not.
C25_Witness ==
    /\ tkOp = "fail_retry"
    /\ tkRes.ok
    /\ tk.payload = <<1>>
    /\ tk.status # tkPrev.status
    /\ tk.updated_at # tkPrev.updated_at

====
